---- MODULE Spec2Model ----
(***************************************************************************)
(* Model of src/crop_video.py: the VideoCropApp selection state machine    *)
(* (foreground Tk handlers) and the cropping worker thread (_do_crop).     *)
(*                                                                         *)
(* Conventions.  Python None is the empty tuple <<>> for tuples and the    *)
(* string "None" for names.  A float is an exact rational <<num, den>>.    *)
(* A Tk handler runs to completion on the main loop, so it is one action;  *)
(* the worker thread is cut into steps at each access to state it shares   *)
(* with the foreground (self.crop_rect, self.video_path, the widgets, the  *)
(* root.after queue).                                                      *)
(***************************************************************************)
EXTENDS Integers, Sequences, FiniteSets, TLC

VARIABLES
    input_dir,      \* the video files on disk: name -> what cv2 reports for it
    files,          \* output files that exist (named by their source's base name)
    canvas,         \* <<winfo_width, winfo_height>> of self.canvas
    video_path,     \* self.video_path
    first_frame,    \* self.first_frame: the video whose first frame is loaded
    scale_factor,   \* self.scale_factor, a rational <<num, den>>
    offset,         \* <<self.offset_x, self.offset_y>>, <<>> while unset
    start,          \* <<self.start_x, self.start_y>>, <<>> while None
    rect_id,        \* the rectangle item on the canvas: "None", "preview", "selection"
    crop_rect,      \* self.crop_rect: <<x1, y1, x2, y2>> or <<>>
    btn_crop,       \* state of self.btn_crop
    btn_clear,      \* state of self.btn_clear
    video_combo,    \* state of self.video_combo
    queue,          \* callbacks posted with root.after(0, ...), in order
    workers,        \* the threads started by _start_crop: locals of _do_crop
    last_event      \* the handler or step that ran last

vars == <<input_dir, files, canvas, video_path, first_frame, scale_factor,
          offset, start, rect_id, crop_rect, btn_crop, btn_clear, video_combo,
          queue, workers, last_event>>

ui_vars == <<canvas, video_path, first_frame, scale_factor, offset, start,
             rect_id, crop_rect, btn_crop, btn_clear, video_combo>>

-----------------------------------------------------------------------------
(* Program constants *)

target_fps == 10

MinSize == 10

ProgressEvery == 30

(* Bounds of the model *)

\* threads _start_crop may start in all
MaxWorkers == 2

Workers == 1..MaxWorkers

\* threads _start_crop may start where every input is explored
MaxJobs == 1

-----------------------------------------------------------------------------
(* The environment: video files and what the container reports for them *)

Videos == {"a", "b", "x", "z"}

\* [opens, w, h, frames (readable), frame_count (reported), fps (reported)]
Video(o, w, h, n, fc, fps) ==
    [opens |-> o, w |-> w, h |-> h, frames |-> n, frame_count |-> fc, fps |-> fps]

\* what the containers of videos "a" and "b" report: <<frames, frame_count, fps>>
Profiles ==
    { << <<90, 90, <<30, 1>> >>,     <<7, 7, <<15, 1>> >> >>,
      << <<31, 0,  <<25, 1>> >>,     <<3, 3, <<0, 1>> >> >>,
      << <<31, 20, <<2997, 100>> >>, <<10, 10, <<45, 1>> >> >> }

\* "x" cannot be opened; "z" opens and holds no frame
Library(p) ==
    [v \in Videos |->
        CASE v = "a" -> Video(TRUE, 24, 20, p[1][1], p[1][2], p[1][3])
          [] v = "b" -> Video(TRUE, 16, 12, p[2][1], p[2][2], p[2][3])
          [] v = "x" -> Video(FALSE, 0, 0, 0, 0, <<0, 1>>)
          [] v = "z" -> Video(TRUE, 0, 0, 0, 0, <<4, 1>>)]

Libraries == { Library(p) : p \in Profiles }

CanvasSizes == { <<48, 40>>, <<20, 10>> }

\* pointer positions of mouse events, in canvas coordinates
Points == { <<-5, -7>>, <<23, 22>>, <<11, 35>>, <<60, 50>> }

\* overlapping exports are explored with one library, one canvas size and
\* the two pointer positions outside the image
RaceProfile == << <<3, 3, <<4, 1>> >>, <<3, 3, <<4, 1>> >> >>

RaceVideos == {"a", "x"}

RaceCanvas == <<48, 40>>

RacePoints == { <<-5, -7>>, <<60, 50>> }

\* the coordinate mapping is explored without exports, over more frame
\* sizes, canvas sizes and pointer positions; every frame keeps at least one
\* pixel in each dimension once scaled
SizedLibrary(da, db) ==
    [v \in Videos |->
        CASE v = "a" -> Video(TRUE, da[1], da[2], 3, 3, <<4, 1>>)
          [] v = "b" -> Video(TRUE, db[1], db[2], 3, 3, <<4, 1>>)
          [] v = "x" -> Video(FALSE, 0, 0, 0, 0, <<0, 1>>)
          [] v = "z" -> Video(TRUE, 0, 0, 0, 0, <<4, 1>>)]

UiLibraries == { SizedLibrary(<<24, 20>>, <<16, 12>>),
                 SizedLibrary(<<40, 30>>, <<12, 33>>) }

UiCanvasSizes == { <<48, 40>>, <<20, 10>>, <<30, 30>>, <<9, 50>>, <<100, 13>> }

UiPoints == { <<-1000, 1000>>, <<2000, -3>>, <<0, 0>>, <<2, 3>>, <<23, 22>>,
              <<35, 37>>, <<11, 35>>, <<60, 50>> }

-----------------------------------------------------------------------------
(* Pure helpers *)

Min(a, b) == IF a <= b THEN a ELSE b

Max(a, b) == IF a >= b THEN a ELSE b

\* h, w = self.first_frame.shape[:2]
FrameW == input_dir[first_frame].w

FrameH == input_dir[first_frame].h

\* (variant: the frame fills the canvas in its looser dimension)
ScaleFactorMax(cw, ch, w, h) ==
    IF cw * h >= ch * w THEN <<cw, w>> ELSE <<ch, h>>

\* _display_frame, lines 153-171: the display transform for a canvas and a frame
ScaleFactor(cw, ch, w, h) ==
    IF cw * h <= ch * w THEN <<cw, w>> ELSE <<ch, h>>

ScaledDim(d, s) == (d * s[1]) \div s[2]

Offsets(cw, ch, w, h) ==
    LET s == ScaleFactor(cw, ch, w, h)
    IN  << (cw - ScaledDim(w, s)) \div 2, (ch - ScaledDim(h, s)) \div 2 >>

\* (variant: the mapped coordinate is not clamped to the frame)
AxisToImageNoClamp(c, off, s, dim) == ((c - off) * s[2]) \div s[1]

\* (variant: the mapped coordinate is clamped at 0 only)
AxisToImageNoUpper(c, off, s, dim) ==
    LET num == (c - off) * s[2]
    IN  IF num <= 0 THEN 0 ELSE num \div s[1]

\* one axis of _canvas_to_image: int(max(0, min((c - off) / scale, dim)))
AxisToImage(c, off, s, dim) ==
    LET num == (c - off) * s[2]
    IN  IF num <= 0 THEN 0
        ELSE IF num >= dim * s[1] THEN dim
        ELSE num \div s[1]

canvas_to_image(p) ==
    << AxisToImage(p[1], offset[1], scale_factor, FrameW),
       AxisToImage(p[2], offset[2], scale_factor, FrameH) >>

\* (variant: the offset of the image in the canvas is left out)
image_to_canvas_no_offset(q) ==
    << <<q[1] * scale_factor[1], scale_factor[2]>>,
       <<q[2] * scale_factor[1], scale_factor[2]>> >>

\* _image_to_canvas, lines 197-201: ix * scale + offset on each axis, a float,
\* kept as the exact fraction <<numerator, denominator>>
image_to_canvas(q) ==
    << <<q[1] * scale_factor[1] + offset[1] * scale_factor[2], scale_factor[2]>>,
       <<q[2] * scale_factor[1] + offset[2] * scale_factor[2], scale_factor[2]>> >>

\* _on_mouse_up, lines 234-239: the ordered rectangle of two canvas points
DragRect(p, q) ==
    LET a == canvas_to_image(p)
        b == canvas_to_image(q)
    IN  << Min(a[1], b[1]), Min(a[2], b[2]), Max(a[1], b[1]), Max(a[2], b[2]) >>

\* (variant: rejects only a selection small in both dimensions)
TooSmallBoth(r) == (r[3] - r[1]) < MinSize /\ (r[4] - r[2]) < MinSize

\* _on_mouse_up, line 242
TooSmall(r) == (r[3] - r[1]) < MinSize \/ (r[4] - r[2]) < MinSize

\* (variant: an odd dimension is made even by growing it)
NormalizeUp(r) ==
    << r[1], r[2],
       IF (r[3] - r[1]) % 2 # 0 THEN r[3] + 1 ELSE r[3],
       IF (r[4] - r[2]) % 2 # 0 THEN r[4] + 1 ELSE r[4] >>

\* _do_crop, lines 308-318: make width and height even
Normalize(r) ==
    << r[1], r[2],
       IF (r[3] - r[1]) % 2 # 0 THEN r[3] - 1 ELSE r[3],
       IF (r[4] - r[2]) % 2 # 0 THEN r[4] - 1 ELSE r[4] >>

\* round half away from zero of the non-negative rational num/den
RoundHalfAway(num, den) == (2 * num + den) \div (2 * den)

\* Python round() of the non-negative rational num/den: half to even
Round(num, den) ==
    LET q == num \div den
        r == num % den
    IN  IF 2 * r < den THEN q
        ELSE IF 2 * r > den THEN q + 1
        ELSE IF q % 2 = 0 THEN q ELSE q + 1

\* (variant: the interval is not floored at 1)
FrameIntervalNoFloor(fps) == Round(fps[1], fps[2] * target_fps)

\* _do_crop, line 331
FrameInterval(fps) == Max(1, Round(fps[1], fps[2] * target_fps))

-----------------------------------------------------------------------------
(* Initial state: the application after __init__ and _build_ui, its window  *)
(* mapped (the canvas has its real size; the deferred branch of             *)
(* _display_frame for a canvas that is not rendered yet is not taken).      *)

IdleWorker ==
    [pc |-> "idle", job_rect |-> <<>>, job_path |-> "None",
     rect0 |-> <<>>, rect |-> <<>>, src |-> "None", cap_open |-> FALSE,
     total_frames |-> 0, original_fps |-> <<0, 1>>, frame_interval |-> 0,
     output_path |-> "None", writer_open |-> FALSE,
     frame_idx |-> 0, written_frames |-> 0, written |-> <<>>,
     outcome |-> "none", exc |-> "None"]

\* a handler or step, what it did, and the pointer position of a release
Event(o, r) == [op |-> o, res |-> r, at |-> <<>>]

Release(r, p) == [op |-> "on_mouse_up", res |-> r, at |-> p]

InitOver(L, S) ==
    /\ input_dir \in L
    /\ files = {}
    /\ canvas \in S
    /\ video_path = "None"
    /\ first_frame = "None"
    /\ scale_factor = <<1, 1>>
    /\ offset = <<>>
    /\ start = <<>>
    /\ rect_id = "None"
    /\ crop_rect = <<>>
    /\ btn_crop = "disabled"
    /\ btn_clear = "normal"
    /\ video_combo = "readonly"
    /\ queue = <<>>
    /\ workers = [w \in Workers |-> IdleWorker]
    /\ last_event = Event("init", "")

Init == InitOver(Libraries, CanvasSizes)

-----------------------------------------------------------------------------
(* Foreground handlers *)

\* _redraw_rect as called with the rectangle r: the item it leaves on the canvas
redraw_rect(r, item) == IF r = <<>> THEN item ELSE "selection"

\* _display_frame for the frame of video f and the canvas size sz
display_frame(f, sz, r) ==
    /\ scale_factor' = ScaleFactor(sz[1], sz[2], input_dir[f].w, input_dir[f].h)
    /\ offset' = Offsets(sz[1], sz[2], input_dir[f].w, input_dir[f].h)
    /\ rect_id' = redraw_rect(r, "None")

\* _load_first_frame
load_first_frame(f) ==
    IF ~input_dir[f].opens \/ input_dir[f].frames = 0
    THEN /\ UNCHANGED <<first_frame, crop_rect, btn_crop, scale_factor, offset, rect_id>>
         /\ last_event' = Event("on_video_selected", "error")
    ELSE /\ first_frame' = f
         /\ crop_rect' = <<>>
         /\ btn_crop' = "disabled"
         /\ display_frame(f, canvas, <<>>)
         /\ last_event' = Event("on_video_selected", "loaded")

\* _on_video_selected: the combobox offers a file only while it is not disabled
on_video_selected(f) ==
    /\ video_combo = "readonly"
    /\ video_path' = f
    /\ load_first_frame(f)
    /\ UNCHANGED <<input_dir, files, canvas, start, btn_clear, video_combo,
                   queue, workers>>

\* (variant: a resize starts the selection over, as a load does)
on_canvas_resize_resets(sz) ==
    /\ canvas' = sz
    /\ IF first_frame # "None"
       THEN /\ display_frame(first_frame, sz, <<>>)
            /\ crop_rect' = <<>>
            /\ btn_crop' = "disabled"
       ELSE UNCHANGED <<scale_factor, offset, rect_id, crop_rect, btn_crop>>
    /\ last_event' = Event("on_canvas_resize", "")
    /\ UNCHANGED <<input_dir, files, video_path, first_frame, start,
                   btn_clear, video_combo, queue, workers>>

\* _on_canvas_resize: <Configure> with the new size
on_canvas_resize(sz) ==
    /\ canvas' = sz
    /\ IF first_frame # "None"
       THEN display_frame(first_frame, sz, crop_rect)
       ELSE UNCHANGED <<scale_factor, offset, rect_id>>
    /\ last_event' = Event("on_canvas_resize", "")
    /\ UNCHANGED <<input_dir, files, video_path, first_frame, start, crop_rect,
                   btn_crop, btn_clear, video_combo, queue, workers>>

\* _on_mouse_down
on_mouse_down(p) ==
    /\ IF first_frame = "None"
       THEN /\ UNCHANGED <<start, rect_id>>
            /\ last_event' = Event("on_mouse_down", "ignored")
       ELSE /\ start' = p
            /\ rect_id' = "None"
            /\ last_event' = Event("on_mouse_down", "anchored")
    /\ UNCHANGED <<input_dir, files, canvas, video_path, first_frame,
                   scale_factor, offset, crop_rect, btn_crop, btn_clear,
                   video_combo, queue, workers>>

\* _on_mouse_drag
on_mouse_drag(p) ==
    /\ IF first_frame = "None" \/ start = <<>>
       THEN /\ UNCHANGED rect_id
            /\ last_event' = Event("on_mouse_drag", "ignored")
       ELSE /\ rect_id' = "preview"
            /\ last_event' = Event("on_mouse_drag", "drawn")
    /\ UNCHANGED <<input_dir, files, canvas, video_path, first_frame,
                   scale_factor, offset, start, crop_rect, btn_crop, btn_clear,
                   video_combo, queue, workers>>

\* _on_mouse_up
on_mouse_up(p) ==
    /\ IF first_frame = "None" \/ start = <<>>
       THEN /\ UNCHANGED <<crop_rect, btn_crop, rect_id>>
            /\ last_event' = Release("ignored", p)
       ELSE LET r == DragRect(start, p)
            IN  IF TooSmall(r)
                THEN /\ crop_rect' = <<>>
                     /\ btn_crop' = "disabled"
                     /\ UNCHANGED rect_id
                     /\ last_event' = Release(IF crop_rect = <<>> THEN "rejected"
                                             ELSE "rejected_valid", p)
                ELSE /\ crop_rect' = r
                     /\ btn_crop' = "normal"
                     /\ rect_id' = redraw_rect(r, rect_id)
                     /\ last_event' = Release("valid", p)
    /\ UNCHANGED <<input_dir, files, canvas, video_path, first_frame,
                   scale_factor, offset, start, btn_clear, video_combo,
                   queue, workers>>

\* _clear_selection: the command of btn_clear
clear_selection ==
    /\ btn_clear = "normal"
    /\ rect_id' = "None"
    /\ crop_rect' = <<>>
    /\ btn_crop' = "disabled"
    /\ last_event' = Event("clear_selection", "")
    /\ UNCHANGED <<input_dir, files, canvas, video_path, first_frame,
                   scale_factor, offset, start, btn_clear, video_combo,
                   queue, workers>>

\* _reset_ui, run by whichever thread calls it
reset_ui ==
    /\ btn_crop' = IF crop_rect # <<>> THEN "normal" ELSE "disabled"
    /\ btn_clear' = "normal"
    /\ video_combo' = "readonly"

\* _start_crop: the command of btn_crop; the thread it starts is worker w
start_crop(w) ==
    /\ btn_crop = "normal"
    /\ workers[w].pc = "idle"
    /\ \A v \in Workers : v < w => workers[v].pc # "idle"
    /\ IF crop_rect = <<>> \/ video_path = "None"
       THEN /\ UNCHANGED <<btn_crop, btn_clear, video_combo, workers>>
            /\ last_event' = Event("start_crop", "ignored")
       ELSE /\ btn_crop' = "disabled"
            /\ btn_clear' = "disabled"
            /\ video_combo' = "disabled"
            /\ workers' = [workers EXCEPT ![w] =
                    [IdleWorker EXCEPT !.pc = "started",
                                       !.job_rect = crop_rect,
                                       !.job_path = video_path]]
            /\ last_event' = Event("start_crop", "started")
    /\ UNCHANGED <<input_dir, files, canvas, video_path, first_frame,
                   scale_factor, offset, start, rect_id, crop_rect, queue>>

-----------------------------------------------------------------------------
(* The worker thread: _do_crop *)

\* a callback handed to root.after(0, ...)
Callback(t, w, pct, wf, path) ==
    [type |-> t, w |-> w, pct |-> pct, wf |-> wf, path |-> path]

WorkerSet(w, l) == workers' = [workers EXCEPT ![w] = l]

\* a thread that has ended, by returning ("done") or by an uncaught exception
\* ("crashed"): its locals are gone, what it reported last is kept
Ended(pc, outcome, exc) ==
    [IdleWorker EXCEPT !.pc = pc, !.outcome = outcome, !.exc = exc]

\* lines 308-318: unpack self.crop_rect (None cannot be unpacked: the thread
\* dies with TypeError) and make the dimensions even
do_crop_read_rect(w) ==
    /\ workers[w].pc = "started"
    /\ IF crop_rect = <<>>
       THEN /\ WorkerSet(w, Ended("crashed", "none", "TypeError"))
            /\ last_event' = Event("do_crop", "TypeError")
       ELSE /\ WorkerSet(w, [workers[w] EXCEPT !.pc = "open_source",
                                               !.rect0 = crop_rect,
                                               !.rect = Normalize(crop_rect)])
            /\ last_event' = Event("do_crop", "normalized")
    /\ UNCHANGED <<input_dir, files, queue>>
    /\ UNCHANGED ui_vars

\* lines 320-331: open self.video_path; read the container's frame count and fps
do_crop_open_source(w) ==
    /\ workers[w].pc = "open_source"
    /\ LET v == input_dir[video_path]
       IN  IF ~v.opens
           THEN /\ WorkerSet(w, [workers[w] EXCEPT !.pc = "reset_ui",
                                                   !.src = video_path,
                                                   !.outcome = "source_error"])
                /\ queue' = Append(queue, Callback("showerror", w, <<0, 1>>, 0, "None"))
                /\ last_event' = Event("do_crop", "source_error")
           ELSE /\ WorkerSet(w, [workers[w] EXCEPT !.pc = "open_sink",
                                                   !.src = video_path,
                                                   !.cap_open = TRUE,
                                                   !.total_frames = v.frame_count,
                                                   !.original_fps = v.fps,
                                                   !.frame_interval = FrameInterval(v.fps)])
                /\ queue' = queue
                /\ last_event' = Event("do_crop", "source_opened")
    /\ UNCHANGED <<input_dir, files>>
    /\ UNCHANGED ui_vars

\* (variant: a writer that fails leaves the source open)
do_crop_open_sink_leak(w) ==
    /\ workers[w].pc = "open_sink"
    /\ \E ok \in BOOLEAN, made \in BOOLEAN :
         IF ok
         THEN /\ made
              /\ WorkerSet(w, [workers[w] EXCEPT !.pc = "loop",
                                                 !.output_path = video_path,
                                                 !.writer_open = TRUE])
              /\ files' = files \cup {video_path}
              /\ queue' = Append(queue, Callback("label", w, <<0, 1>>, 0, "None"))
              /\ last_event' = Event("do_crop", "sink_opened")
         ELSE /\ WorkerSet(w, [workers[w] EXCEPT !.pc = "reset_ui",
                                                 !.output_path = video_path,
                                                 !.outcome = "sink_error"])
              /\ files' = IF made THEN files \cup {video_path} ELSE files
              /\ queue' = Append(queue, Callback("showerror", w, <<0, 1>>, 0, "None"))
              /\ last_event' = Event("do_crop", "sink_error")
    /\ UNCHANGED input_dir
    /\ UNCHANGED ui_vars

\* lines 333-349: name the output after self.video_path and open the writer,
\* which succeeds or not; a writer that fails may have created the file
do_crop_open_sink(w) ==
    /\ workers[w].pc = "open_sink"
    /\ \E ok \in BOOLEAN, made \in BOOLEAN :
         IF ok
         THEN /\ made
              /\ WorkerSet(w, [workers[w] EXCEPT !.pc = "loop",
                                                 !.output_path = video_path,
                                                 !.writer_open = TRUE])
              /\ files' = files \cup {video_path}
              /\ queue' = Append(queue, Callback("label", w, <<0, 1>>, 0, "None"))
              /\ last_event' = Event("do_crop", "sink_opened")
         ELSE /\ WorkerSet(w, [workers[w] EXCEPT !.pc = "reset_ui",
                                                 !.output_path = video_path,
                                                 !.cap_open = FALSE,
                                                 !.outcome = "sink_error"])
              /\ files' = IF made THEN files \cup {video_path} ELSE files
              /\ queue' = Append(queue, Callback("showerror", w, <<0, 1>>, 0, "None"))
              /\ last_event' = Event("do_crop", "sink_error")
    /\ UNCHANGED input_dir
    /\ UNCHANGED ui_vars

\* lines 323 and 344: _reset_ui called by the worker thread itself
do_crop_reset_ui(w) ==
    /\ workers[w].pc = "reset_ui"
    /\ reset_ui
    /\ WorkerSet(w, Ended("done", workers[w].outcome, "None"))
    /\ last_event' = Event("do_crop", "reset_ui")
    /\ UNCHANGED <<input_dir, files, queue, canvas, video_path, first_frame,
                   scale_factor, offset, start, rect_id, crop_rect>>

\* (variant: keeps the frames just before each multiple of the interval)
LoopBodyOffByOne(l) ==
    LET keep == (l.frame_idx + 1) % l.frame_interval = 0
    IN  [l EXCEPT !.written = IF keep THEN Append(@, l.frame_idx) ELSE @,
                  !.written_frames = IF keep THEN @ + 1 ELSE @,
                  !.frame_idx = @ + 1]

\* lines 359-365: one iteration of the loop after a successful read
LoopBody(l) ==
    LET keep == l.frame_idx % l.frame_interval = 0
    IN  [l EXCEPT !.written = IF keep THEN Append(@, l.frame_idx) ELSE @,
                  !.written_frames = IF keep THEN @ + 1 ELSE @,
                  !.frame_idx = @ + 1]

\* lines 354-371: iterate until a read fails ("release"), the progress
\* percentage divides by a zero frame count ("crashed": ZeroDivisionError ends
\* the thread), or a progress callback is posted ("loop")
RECURSIVE RunLoop(_, _)
RunLoop(l, frames) ==
    IF l.frame_idx >= frames
    THEN [l EXCEPT !.pc = "release"]
    ELSE LET m == LoopBody(l)
         IN  IF m.frame_idx % ProgressEvery # 0 THEN RunLoop(m, frames)
             ELSE IF m.total_frames = 0 THEN [m EXCEPT !.pc = "crashed"]
             ELSE m

do_crop_loop(w) ==
    /\ workers[w].pc = "loop"
    /\ LET l == RunLoop(workers[w], input_dir[workers[w].src].frames)
       IN  /\ WorkerSet(w, IF l.pc = "crashed"
                            THEN Ended("crashed", "none", "ZeroDivisionError")
                            ELSE l)
           /\ queue' = IF l.pc = "loop"
                       THEN Append(queue, Callback("progress", w,
                                <<l.frame_idx * 100, l.total_frames>>,
                                l.written_frames, "None"))
                       ELSE queue
           /\ last_event' = Event("do_crop",
                                CASE l.pc = "loop" -> "progress"
                                  [] l.pc = "release" -> "end_of_stream"
                                  [] OTHER -> "ZeroDivisionError")
    /\ UNCHANGED <<input_dir, files>>
    /\ UNCHANGED ui_vars

\* (variant: the source is left open)
do_crop_release_leak(w) ==
    /\ workers[w].pc = "release"
    /\ WorkerSet(w, [workers[w] EXCEPT !.pc = "release_writer"])
    /\ last_event' = Event("do_crop", "cap_released")
    /\ UNCHANGED <<input_dir, files, queue>>
    /\ UNCHANGED ui_vars

\* line 373, after the read that failed: cap.release()
do_crop_release(w) ==
    /\ workers[w].pc = "release"
    /\ WorkerSet(w, [workers[w] EXCEPT !.pc = "release_writer",
                                       !.cap_open = FALSE])
    /\ last_event' = Event("do_crop", "cap_released")
    /\ UNCHANGED <<input_dir, files, queue>>
    /\ UNCHANGED ui_vars

\* line 374: writer.release()
do_crop_release_writer(w) ==
    /\ workers[w].pc = "release_writer"
    /\ WorkerSet(w, [workers[w] EXCEPT !.pc = "post_done",
                                       !.writer_open = FALSE])
    /\ last_event' = Event("do_crop", "writer_released")
    /\ UNCHANGED <<input_dir, files, queue>>
    /\ UNCHANGED ui_vars

\* line 377: post _on_crop_done with the output path and the count; the
\* thread ends
do_crop_post_done(w) ==
    /\ workers[w].pc = "post_done"
    /\ WorkerSet(w, Ended("done", "success", "None"))
    /\ queue' = Append(queue, Callback("on_crop_done", w, <<0, 1>>,
                                       workers[w].written_frames,
                                       workers[w].output_path))
    /\ last_event' = Event("do_crop", "done_posted")
    /\ UNCHANGED <<input_dir, files>>
    /\ UNCHANGED ui_vars

-----------------------------------------------------------------------------
(* The Tk main loop runs the oldest posted callback on the foreground thread *)

\* _on_crop_done resets the controls; the other callbacks only show something
mainloop ==
    /\ queue # <<>>
    /\ queue' = Tail(queue)
    /\ IF Head(queue).type = "on_crop_done"
       THEN reset_ui
       ELSE UNCHANGED <<btn_crop, btn_clear, video_combo>>
    /\ last_event' = Event("mainloop", Head(queue).type)
    /\ UNCHANGED <<input_dir, files, workers, canvas, video_path, first_frame,
                   scale_factor, offset, start, rect_id, crop_rect>>

-----------------------------------------------------------------------------

\* the program's steps, with inputs drawn from the given sets: files f to
\* select, canvas sizes, pointer positions, and the threads that may run
NextOver(V, S, P, W) ==
    \/ \E f \in V : on_video_selected(f)
    \/ \E sz \in S : on_canvas_resize(sz)
    \/ \E p \in P : on_mouse_down(p)
    \/ \E p \in P : on_mouse_drag(p)
    \/ \E p \in P : on_mouse_up(p)
    \/ clear_selection
    \/ \E w \in W : start_crop(w)
    \/ \E w \in W : do_crop_read_rect(w)
    \/ \E w \in W : do_crop_open_source(w)
    \/ \E w \in W : do_crop_open_sink(w)
    \/ \E w \in W : do_crop_reset_ui(w)
    \/ \E w \in W : do_crop_loop(w)
    \/ \E w \in W : do_crop_release(w)
    \/ \E w \in W : do_crop_release_writer(w)
    \/ \E w \in W : do_crop_post_done(w)
    \/ mainloop

\* one export at a time, every input
Next == NextOver(Videos, CanvasSizes, Points, 1..MaxJobs)

Spec == Init /\ [][Next]_vars

\* overlapping exports, with fewer pointer positions and one library
RaceInit == InitOver({Library(RaceProfile)}, {RaceCanvas})

RaceNext == NextOver(RaceVideos, {RaceCanvas}, RacePoints, Workers)

RaceSpec == RaceInit /\ [][RaceNext]_vars

\* the selection handlers alone, no export started
UiInit == InitOver(UiLibraries, UiCanvasSizes)

UiNext ==
    \/ \E f \in Videos : on_video_selected(f)
    \/ \E sz \in UiCanvasSizes : on_canvas_resize(sz)
    \/ \E p \in UiPoints : on_mouse_down(p)
    \/ \E p \in UiPoints : on_mouse_drag(p)
    \/ \E p \in UiPoints : on_mouse_up(p)
    \/ clear_selection

UiSpec == UiInit /\ [][UiNext]_vars

-----------------------------------------------------------------------------
(* Properties *)

\* a thread between thread.start() and its end
Running(w) == workers[w].pc \notin {"idle", "done", "crashed"}

\* the source a worker opened yields what _do_crop needs
SourceOpened(w) == workers[w].pc \in {"open_sink", "loop", "release"}

Broken(v) == ~input_dir[v].opens \/ input_dir[v].frames = 0

Ceil(n, k) == (n + k - 1) \div k

Abs(i) == IF i < 0 THEN -i ELSE i

\* C1: at most one cropping worker runs at any time: while the thread of a
\* job runs, no second one is started.
C1_OneWorkerAtATime == Cardinality({w \in Workers : Running(w)}) <= 1

\* C2: a job works with the selection rectangle and the video path of the
\* moment the export was triggered: a later selection change neither changes
\* the rectangle the worker crops with nor stops the worker from starting.
C2_JobUsesTriggerSnapshot ==
    \A w \in Workers :
        /\ workers[w].exc # "TypeError"
        /\ workers[w].rect0 # <<>> => workers[w].rect0 = workers[w].job_rect
        /\ workers[w].src # "None" => workers[w].src = workers[w].job_path
        /\ workers[w].output_path # "None" =>
               workers[w].output_path = workers[w].job_path

\* C3: every job whose thread has ended has reached a terminal outcome
\* (success or a hard error), for every reported frame count and frame rate,
\* and the step that delivers the outcome leaves the selector and the clear
\* control enabled and the export control enabled when a selection exists.
\* (A thread killed by the selection change of C2 is set aside here.)
C3_JobReachesOutcome ==
    /\ \A w \in Workers :
          workers[w].pc \in {"done", "crashed"} =>
              \/ workers[w].outcome \in {"success", "source_error", "sink_error"}
              \/ workers[w].exc = "TypeError"
    /\ (last_event \in {Event("do_crop", "reset_ui"), Event("mainloop", "on_crop_done")}) =>
          /\ btn_clear = "normal"
          /\ video_combo = "readonly"
          /\ crop_rect # <<>> => btn_crop = "normal"

\* C4: a job whose source cannot be opened or holds no frame ends with a
\* source-open error, _on_crop_done is never posted for it, and no output file
\* named after it exists.
C4_BrokenSourceIsAnError ==
    /\ \A w \in Workers :
          (workers[w].src # "None" /\ Broken(workers[w].src)) =>
              /\ workers[w].pc = "reset_ui"
              /\ workers[w].outcome = "source_error"
    /\ \A i \in 1..Len(queue) :
          queue[i].type = "on_crop_done" => ~Broken(queue[i].path)
    /\ \A v \in Videos : Broken(v) => v \notin files

\* in the loop: the frames written are the multiples of the interval below
\* the frame index, in order, and the read fails when the index reaches N
SampledSoFar ==
    \A w \in Workers :
        workers[w].pc \in {"loop", "release"} =>
            LET l == workers[w]
                k == l.frame_interval
            IN  /\ Len(l.written) = l.written_frames
                /\ \A j \in 1..Len(l.written) : l.written[j] = (j - 1) * k
                /\ l.written_frames = Ceil(l.frame_idx, k)
                /\ l.frame_idx <= input_dir[l.src].frames
                /\ l.pc = "release" =>
                      /\ l.frame_idx = input_dir[l.src].frames
                      /\ l.written_frames = Ceil(input_dir[l.src].frames, k)

\* the step that posts _on_crop_done hands it ceil(N/k)
ReportsFinalCount ==
    \A w \in Workers :
        (workers[w].pc = "post_done" /\ workers'[w].pc = "done") =>
            /\ queue' # <<>>
            /\ queue'[Len(queue')].type = "on_crop_done"
            /\ queue'[Len(queue')].wf =
                  Ceil(input_dir[workers[w].src].frames, workers[w].frame_interval)

\* C5: with frame interval k the worker has written, in increasing order,
\* exactly the frames read so far whose index is a multiple of k, the index
\* counts every frame read, and when the read fails after N frames the
\* written-frame count is ceil(N/k); that count is what _on_crop_done gets.
C5_SamplingKeepsEveryKth == []SampledSoFar /\ [][ReportsFinalCount]_vars

\* the end of a 90-frame source at interval 3: frames 0, 3, ..., 87
C5_Witness ==
    \E w \in Workers :
        /\ workers[w].pc = "release"
        /\ workers[w].frame_idx = 90
        /\ workers[w].frame_interval = 3
        /\ workers[w].written_frames = 30
        /\ workers[w].written[30] = 87

\* C6 as stated: interval = max(1, roundHalfAwayFromZero(sourceFps / 10)),
\* so 25 fps gives 3.
C6_IntervalRoundsHalfAway ==
    \A w \in Workers :
        SourceOpened(w) =>
            workers[w].frame_interval =
                Max(1, RoundHalfAway(workers[w].original_fps[1],
                                     workers[w].original_fps[2] * target_fps))

\* C6 amended: interval = max(1, r) where r is the integer nearest to
\* sourceFps / 10 and, on a half, the even one of the two nearest: 25 fps
\* gives 2, 15 gives 2, 45 gives 4, and 30 gives 3.
C6_IntervalRoundsHalfEven ==
    \A w \in Workers :
        SourceOpened(w) =>
            LET n == workers[w].original_fps[1]
                d == workers[w].original_fps[2] * target_fps
                k == workers[w].frame_interval
            IN  /\ k >= 1
                /\ k = 1 => 2 * n < 3 * d
                /\ k > 1 => /\ Abs(2 * k * d - 2 * n) <= d
                            /\ Abs(2 * k * d - 2 * n) = d => k % 2 = 0
                /\ workers[w].original_fps = <<25, 1>> => k = 2
                /\ workers[w].original_fps = <<15, 1>> => k = 2
                /\ workers[w].original_fps = <<45, 1>> => k = 4
                /\ workers[w].original_fps = <<30, 1>> => k = 3

C6_Witness ==
    \E w \in Workers :
        /\ SourceOpened(w)
        /\ workers[w].original_fps = <<25, 1>>
        /\ workers[w].frame_interval = 2

\* C7: the frame interval is an integer >= 1 for every reported frame rate,
\* and frame 0 of a source that yields a frame is kept.
C7_IntervalAtLeastOne ==
    \A w \in Workers :
        SourceOpened(w) =>
            /\ workers[w].frame_interval \in Nat \ {0}
            /\ workers[w].frame_idx >= 1 =>
                  /\ workers[w].written_frames >= 1
                  /\ workers[w].written[1] = 0

\* a source reporting 0 fps whose first frame was read and kept
C7_Witness ==
    \E w \in Workers :
        /\ SourceOpened(w)
        /\ workers[w].original_fps = <<0, 1>>
        /\ workers[w].frame_interval = 1
        /\ workers[w].frame_idx >= 1
        /\ workers[w].written[1] = 0

\* the release at pointer position p, with the anchor held, spans less than
\* 10 source pixels in width or in height
SmallRelease(p) ==
    LET a == canvas_to_image(start)
        b == canvas_to_image(p)
    IN  Abs(b[1] - a[1]) < 10 \/ Abs(b[2] - a[2]) < 10

\* C8: after a drag is released spanning less than 10 source pixels in width
\* or height there is no confirmed rectangle and export is disabled, whatever
\* the selection was before.
C8_SmallDragRejected ==
    (/\ last_event.op = "on_mouse_up"
     /\ first_frame # "None"
     /\ start # <<>>
     /\ SmallRelease(last_event.at)) =>
        /\ crop_rect = <<>>
        /\ btn_crop = "disabled"

\* a small release that followed a valid selection
C8_Witness ==
    /\ last_event.op = "on_mouse_up"
    /\ last_event.res = "rejected_valid"
    /\ first_frame # "None"
    /\ start # <<>>
    /\ SmallRelease(last_event.at)
    /\ crop_rect = <<>>
    /\ btn_crop = "disabled"

\* C9: a confirmed selection lies inside the loaded frame and is at least
\* 10 by 10.
C9_SelectionInsideFrame ==
    crop_rect # <<>> =>
        /\ first_frame # "None"
        /\ 0 <= crop_rect[1]
        /\ crop_rect[1] < crop_rect[3]
        /\ crop_rect[3] <= FrameW
        /\ 0 <= crop_rect[2]
        /\ crop_rect[2] < crop_rect[4]
        /\ crop_rect[4] <= FrameH
        /\ crop_rect[3] - crop_rect[1] >= 10
        /\ crop_rect[4] - crop_rect[2] >= 10

\* a selection on the second video's smaller frame, reaching its far edges
C9_Witness ==
    /\ first_frame = "b"
    /\ crop_rect = <<0, 0, 16, 12>>

\* C10: the rectangle a worker crops with has even width and height, each
\* equal to or one less than the selection's, the same x1 and y1, and is
\* still at least 10 by 10.
C10_NormalizedRect ==
    \A w \in Workers :
        workers[w].rect0 # <<>> =>
            LET r0 == workers[w].rect0
                r == workers[w].rect
            IN  /\ (r[3] - r[1]) % 2 = 0
                /\ (r[4] - r[2]) % 2 = 0
                /\ (r[3] - r[1]) \in {r0[3] - r0[1], r0[3] - r0[1] - 1}
                /\ (r[4] - r[2]) \in {r0[4] - r0[2], r0[4] - r0[2] - 1}
                /\ r[1] = r0[1]
                /\ r[2] = r0[2]
                /\ r[1] < r[3]
                /\ r[2] < r[4]
                /\ r[3] - r[1] >= 10
                /\ r[4] - r[2] >= 10

\* an 11 x 11 selection cropped as 10 x 10
C10_Witness ==
    \E w \in Workers :
        /\ workers[w].rect0 = <<0, 0, 11, 11>>
        /\ workers[w].rect = <<0, 0, 10, 10>>

\* C11: under every display transform _canvas_to_image maps every canvas
\* point, also one far outside the image or with negative coordinates, to
\* integers (sx, sy) with 0 <= sx <= W and 0 <= sy <= H of the loaded frame.
C11_MappedPointInsideFrame ==
    first_frame # "None" =>
        /\ scale_factor[1] > 0
        /\ scale_factor[2] > 0
        /\ \A p \in UiPoints :
              /\ canvas_to_image(p)[1] \in 0..FrameW
              /\ canvas_to_image(p)[2] \in 0..FrameH

\* a drag between two points far outside the image selected the whole frame
C11_Witness ==
    /\ last_event = Release("valid", <<-1000, 1000>>)
    /\ start = <<2000, -3>>
    /\ canvas_to_image(start) = <<FrameW, 0>>
    /\ crop_rect = <<0, 0, FrameW, FrameH>>

MapsInside(c, off, dim) ==
    /\ (c - off) * scale_factor[2] >= 0
    /\ (c - off) * scale_factor[2] <= dim * scale_factor[1]

\* how far the round trip falls short of the canvas point p on axis i, as
\* a numerator over scale_factor[2]
RoundTripGap(p, i) ==
    p[i] * scale_factor[2] - image_to_canvas(canvas_to_image(p))[i][1]

\* C13 as stated: a canvas point that maps inside the frame comes back from
\* _canvas_to_image then _image_to_canvas within one unit on each axis,
\* whether the scale is below or above 1.
C13_RoundTripWithinOneUnit ==
    first_frame # "None" =>
        \A p \in UiPoints :
            (MapsInside(p[1], offset[1], FrameW) /\ MapsInside(p[2], offset[2], FrameH)) =>
                /\ Abs(RoundTripGap(p, 1)) <= scale_factor[2]
                /\ Abs(RoundTripGap(p, 2)) <= scale_factor[2]

\* C13: a canvas point that maps inside the frame comes back from
\* _canvas_to_image then _image_to_canvas never past the original and less
\* than one frame pixel, that is less than scale canvas units, before it on
\* each axis.
C13_RoundTripWithinOnePixel ==
    first_frame # "None" =>
        \A p \in UiPoints :
            (MapsInside(p[1], offset[1], FrameW) /\ MapsInside(p[2], offset[2], FrameH)) =>
                /\ RoundTripGap(p, 1) >= 0 /\ RoundTripGap(p, 1) < scale_factor[1]
                /\ RoundTripGap(p, 2) >= 0 /\ RoundTripGap(p, 2) < scale_factor[1]

\* at scale 3 the release at (35, 37) became the corner (11, 11), which is
\* drawn at (33, 35)
C13_Witness ==
    /\ last_event = Release("valid", <<35, 37>>)
    /\ first_frame = "b" /\ canvas = <<48, 40>>
    /\ scale_factor = <<48, 16>> /\ offset = <<0, 2>>
    /\ MapsInside(35, offset[1], FrameW) /\ MapsInside(37, offset[2], FrameH)
    /\ crop_rect = <<0, 0, 11, 11>>
    /\ image_to_canvas(<<11, 11>>) = << <<33 * 16, 16>>, <<35 * 16, 16>> >>

\* the callbacks of type t that thread w has posted and that still wait
Posted(w, t) == { i \in 1..Len(queue) : queue[i].w = w /\ queue[i].type = t }

\* the thread w takes a step
Steps(w) == workers'[w] # workers[w]

\* C14: a progress event carries a percent 100 * frameIndex / frameCount
\* that lies in 0..100, and a reported frame count of zero, or one smaller
\* than the frames read, neither fails the job nor takes the percent out
\* of 0..100.
C14_ProgressPercentInRange ==
    /\ \A i \in 1..Len(queue) :
          queue[i].type = "progress" =>
              /\ queue[i].pct[2] > 0
              /\ queue[i].pct[1] >= 0
              /\ queue[i].pct[1] <= 100 * queue[i].pct[2]
    /\ \A w \in Workers : workers[w].exc # "ZeroDivisionError"

\* C15: a step of the worker thread changes nothing the foreground owns:
\* the controls are re-enabled only by a callback the main loop runs.
C15_WorkerOnlyPostsEvents ==
    [][last_event'.op = "do_crop" =>
          UNCHANGED <<btn_crop, btn_clear, video_combo>>]_vars

\* a thread whose writer did not open holds nothing and has reported nothing
\* but one error
SinkFailureState ==
    \A w \in Workers :
        workers[w].outcome = "sink_error" =>
            /\ ~workers[w].cap_open
            /\ ~workers[w].writer_open
            /\ workers[w].frame_idx = 0
            /\ workers[w].written_frames = 0
            /\ workers[w].written = <<>>
            /\ Cardinality(Posted(w, "showerror")) <= 1
            /\ Posted(w, "on_crop_done") = {}
            /\ Posted(w, "progress") = {}

\* the failing step posts the one error notice; what follows posts nothing;
\* no step removes a file
SinkFailureStep ==
    /\ files \subseteq files'
    /\ \A w \in Workers :
          /\ (Steps(w) /\ workers[w].pc = "open_sink" /\ workers'[w].pc = "reset_ui") =>
                /\ workers[w].cap_open /\ ~workers'[w].cap_open
                /\ queue' = Append(queue, Callback("showerror", w, <<0, 1>>, 0, "None"))
          /\ (Steps(w) /\ workers[w].outcome = "sink_error") => queue' = queue

\* C16: when the writer cannot be opened the job stops there: the opened
\* source is released, no frame is read or written, exactly one error notice
\* is posted, _on_crop_done is never posted, and nothing deletes a file.
C16_SinkFailureAborts == []SinkFailureState /\ [][SinkFailureStep]_vars

\* the writer did not open, the thread has ended and its notice waits
C16_Witness ==
    /\ last_event = Event("do_crop", "reset_ui")
    /\ \E w \in Workers :
          /\ workers[w].pc = "done"
          /\ workers[w].outcome = "sink_error"
          /\ Cardinality(Posted(w, "showerror")) = 1

\* C17: a successful load leaves no confirmed rectangle and the export
\* disabled, and a release that follows it with no press in between does not
\* confirm a selection from the anchor of the frame before.
C17_LoadLeavesSelectionEmpty ==
    [][/\ last_event' = Event("on_video_selected", "loaded") =>
              crop_rect' = <<>> /\ btn_crop' = "disabled"
       /\ (last_event = Event("on_video_selected", "loaded")
              /\ last_event'.op = "on_mouse_up") => crop_rect' = <<>>]_vars

\* after the read that failed: source first, then writer, then the report
ReleaseState ==
    \A w \in Workers :
        /\ workers[w].pc = "release" => workers[w].cap_open /\ workers[w].writer_open
        /\ workers[w].pc = "release_writer" => ~workers[w].cap_open /\ workers[w].writer_open
        /\ workers[w].pc = "post_done" => ~workers[w].cap_open /\ ~workers[w].writer_open
        /\ workers[w].pc \in {"release", "release_writer", "post_done"} =>
              Posted(w, "on_crop_done") = {}
        /\ Cardinality(Posted(w, "on_crop_done")) <= 1

\* the releasing steps read, write and post nothing; the last step posts the
\* one completion event with the output path and the final count
ReleaseStep ==
    \A w \in Workers :
        (Steps(w) /\ workers[w].pc \in {"release", "release_writer", "post_done"}) =>
            IF workers[w].pc = "post_done"
            THEN queue' = Append(queue, Callback("on_crop_done", w, <<0, 1>>,
                                     Len(workers[w].written), workers[w].output_path))
            ELSE /\ queue' = queue
                 /\ workers'[w].frame_idx = workers[w].frame_idx
                 /\ workers'[w].written = workers[w].written
                 /\ workers'[w].written_frames = workers[w].written_frames

\* C18: when a read fails the worker stops reading, releases the source and
\* then the writer, and only after both are released posts exactly one
\* completion event carrying the output path and the final written-frame
\* count; after the failed read no frame is written and no progress posted.
C18_ReleaseThenReport == []ReleaseState /\ [][ReleaseStep]_vars

\* the completion event of an export that wrote frames was just posted
C18_Witness ==
    /\ last_event = Event("do_crop", "done_posted")
    /\ queue # <<>>
    /\ queue[Len(queue)].type = "on_crop_done"
    /\ queue[Len(queue)].wf > 0
    /\ queue[Len(queue)].path \in files

\* C19: a canvas resize leaves the confirmed selection, the loaded frame,
\* the video path and the state of the export button as they are, whatever
\* the state it arrives in.
C19_ResizeKeepsSelection ==
    [][last_event'.op = "on_canvas_resize" =>
          UNCHANGED <<crop_rect, first_frame, video_path, btn_crop>>]_vars

\* a resize arrived with a selection confirmed and the export enabled
C19_Witness ==
    /\ last_event.op = "on_canvas_resize"
    /\ canvas = <<20, 10>>
    /\ crop_rect # <<>>
    /\ rect_id = "selection"
    /\ btn_crop = "normal"

\* C20: whenever a selection is confirmed and the export enabled, the video
\* path an export would use is the video the shown frame, on which the
\* selection was drawn, was read from.
C20_PathMatchesShownFrame ==
    (crop_rect # <<>> /\ btn_crop = "normal") => video_path = first_frame

====
